---- MODULE Spec2Model ----
(***************************************************************************)
(* A model of site-scanner: the Bun.serve request handler of src/index.tsx *)
(* (query validation, the query event, the cache lookup, the freshness     *)
(* decision, the in-memory rate-limit table with its 10 s timers, the      *)
(* probe of fetchNewResults) and the header rule set of src/validation.ts  *)
(* with the grade computed from it.                                        *)
(*                                                                         *)
(* JavaScript strings are modelled as sequences of one-character strings,  *)
(* so that startsWith, split, includes, toLowerCase and the regular        *)
(* expressions of the rule set are computed character by character.        *)
(* Times are milliseconds, as Date.now() gives them.                       *)
(***************************************************************************)
EXTENDS Integers, Sequences, FiniteSets, Bags, TLC

None == "none"
\* the time of something that never happened
Never == 0 - 1

-----------------------------------------------------------------------------
(* Time constants, src/index.tsx:167-170 and :493.                         *)

ONE_MINUTE == 60 * 1000
ONE_HOUR == 60 * ONE_MINUTE
ONE_DAY == 24 * ONE_HOUR
TWO_WEEKS == 14 * ONE_DAY

\* the delay handed to setTimeout at src/index.tsx:493
COOLDOWN == 10000

-----------------------------------------------------------------------------
(* Bounds of the model.                                                    *)

\* requests in one behaviour; all of them may be in flight at once
MaxInFlight == 2
\* the clock runs for this many TickMs
MaxTicks == 1
\* milliseconds the clock advances by in one step, unless a timer is due sooner
TickMs == 10000

-----------------------------------------------------------------------------
(* Strings.                                                                *)

Min(a, b) == IF a <= b THEN a ELSE b

\* String.prototype.startsWith
StartsWith(s, p) == Len(s) >= Len(p) /\ SubSeq(s, 1, Len(p)) = p

\* String.prototype.includes
Includes(s, sub) ==
    \E i \in 1..(Len(s) - Len(sub) + 1) : SubSeq(s, i, i + Len(sub) - 1) = sub

UpperCase == <<"A","B","C","D","E","F","G","H","I","J","K","L","M","N","O","P","Q","R","S","T","U","V","W","X","Y","Z">>
LowerCase == <<"a","b","c","d","e","f","g","h","i","j","k","l","m","n","o","p","q","r","s","t","u","v","w","x","y","z">>

LowerChar(c) ==
    IF \E i \in 1..Len(UpperCase) : UpperCase[i] = c
    THEN LowerCase[CHOOSE i \in 1..Len(UpperCase) : UpperCase[i] = c]
    ELSE c

\* String.prototype.toLowerCase
ToLowerCase(s) == [i \in 1..Len(s) |-> LowerChar(s[i])]

\* index of the first occurrence of character c in s at or after from, else 0
IndexOf(s, c, from) ==
    IF \E i \in from..Len(s) : s[i] = c
    THEN CHOOSE i \in from..Len(s) : s[i] = c /\ \A j \in from..(i - 1) : s[j] # c
    ELSE 0

\* String.prototype.split with a one-character separator
RECURSIVE Split(_, _)
Split(s, c) ==
    LET i == IndexOf(s, c, 1)
    IN  IF i = 0 THEN <<s>>
        ELSE <<SubSeq(s, 1, i - 1)>> \o Split(SubSeq(s, i + 1, Len(s)), c)

Digits == {"0", "1", "2", "3", "4", "5", "6", "7", "8", "9"}

-----------------------------------------------------------------------------
(* Query validation, src/index.tsx:454-458, and the URL's hostname.        *)

HttpScheme == <<"h","t","t","p",":","/","/">>
HttpsScheme == <<"h","t","t","p","s",":","/","/">>

\* src/index.tsx:455
hasCorrectSchema(query) == StartsWith(query, HttpScheme) \/ StartsWith(query, HttpsScheme)

\* src/index.tsx:457: query.split('.')?.[1]?.length >= 2
hasTld(query) ==
    LET parts == Split(query, ".")
    IN  Len(parts) >= 2 /\ Len(parts[2]) >= 2

\* new URL(query).hostname for an http(s) URL without userinfo or port:
\* the text between the scheme and the first "/", "?" or "#"
Hostname(query) ==
    LET rest == IF StartsWith(query, HttpsScheme)
                THEN SubSeq(query, Len(HttpsScheme) + 1, Len(query))
                ELSE SubSeq(query, Len(HttpScheme) + 1, Len(query))
        ends == {i \in 1..Len(rest) : rest[i] \in {"/", "?", "#"}}
        end  == IF ends = {} THEN Len(rest) + 1
                ELSE CHOOSE i \in ends : \A j \in ends : i <= j
    IN  SubSeq(rest, 1, end - 1)

\* a validation without the TLD check, which C10 must tell from the code's
ValidationErrorNoTld(query) ==
    IF ~hasCorrectSchema(query) THEN "The URL must begin with http:// or https://"
    ELSE None

\* the outcome of the validation at src/index.tsx:455-458: the message of the
\* Error thrown, or None
ValidationError(query) ==
    IF ~hasCorrectSchema(query) THEN "The URL must begin with http:// or https://"
    ELSE IF ~hasTld(query) THEN "The URL must end with a TLD"
    ELSE None

-----------------------------------------------------------------------------
(* The header rule set, src/validation.ts. The file holds two variants of  *)
(* headerSchema: the one of lines 3-170, where every header but server is  *)
(* optional ("lenient"), and the one of lines 180-336, where every header  *)
(* is required and cache-control is a rule as well ("strict").             *)
(* A header map is a function from header names to values.                 *)

Schemas == {"lenient", "strict"}

\* the keys of z.object at src/validation.ts:3-170, in order
LenientRules ==
    << "strict-transport-security", "content-security-policy", "x-frame-options",
       "x-content-type-options", "referrer-policy", "permissions-policy",
       "content-security-policy-report-only", "x-xss-protection", "expect-ct",
       "feature-policy", "public-key-pins", "content-encoding",
       "strict-transport-security-preload", "access-control-allow-origin", "server" >>

\* the keys of z.object at src/validation.ts:180-336, in order
StrictRules ==
    << "strict-transport-security", "content-security-policy", "x-frame-options",
       "x-content-type-options", "referrer-policy", "permissions-policy",
       "content-security-policy-report-only", "x-xss-protection", "expect-ct",
       "feature-policy", "public-key-pins", "content-encoding", "cache-control",
       "strict-transport-security-preload", "access-control-allow-origin", "server" >>

RulesOf(schema) == IF schema = "lenient" THEN LenientRules ELSE StrictRules

HeaderNames == {StrictRules[i] : i \in 1..Len(StrictRules)}

\* /^max-age=\d+; includeSubDomains$/.test(value)
MatchesHsts(value) ==
    LET pre == <<"m","a","x","-","a","g","e","=">>
        suf == <<";"," ","i","n","c","l","u","d","e","S","u","b","D","o","m","a","i","n","s">>
    IN  /\ StartsWith(value, pre)
        /\ \E k \in 1..(Len(value) - Len(pre)) :
              /\ \A i \in (Len(pre) + 1)..(Len(pre) + k) : value[i] \in Digits
              /\ SubSeq(value, Len(pre) + k + 1, Len(value)) = suf

ReferrerPolicies ==
    { <<"n","o","-","r","e","f","e","r","r","e","r">>, <<"n","o","-","r","e","f","e","r","r","e","r","-","w","h","e","n","-","d","o","w","n","g","r","a","d","e">>, <<"s","a","m","e","-","o","r","i","g","i","n">>, <<"o","r","i","g","i","n">>,
      <<"s","t","r","i","c","t","-","o","r","i","g","i","n">>, <<"o","r","i","g","i","n","-","w","h","e","n","-","c","r","o","s","s","-","o","r","i","g","i","n">>,
      <<"s","t","r","i","c","t","-","o","r","i","g","i","n","-","w","h","e","n","-","c","r","o","s","s","-","o","r","i","g","i","n">>, <<"u","n","s","a","f","e","-","u","r","l">> }

\* the predicate each rule hands to refine (without the lenient variant's
\* leading "!value ||"); TRUE for the rules that have no refine
RefineOk(name, value) ==
    LET lower == ToLowerCase(value)
    IN  CASE name = "strict-transport-security" -> MatchesHsts(value)
          [] name \in {"content-security-policy", "content-security-policy-report-only"} ->
                Includes(lower, <<"d","e","f","a","u","l","t","-","s","r","c">>) \/ Includes(lower, <<"s","c","r","i","p","t","-","s","r","c">>)
          [] name = "x-frame-options" -> value = <<"S","A","M","E","O","R","I","G","I","N">> \/ value = <<"D","E","N","Y">>
          [] name = "x-content-type-options" -> value = <<"n","o","s","n","i","f","f">>
          [] name = "referrer-policy" -> lower \in ReferrerPolicies
          [] name = "permissions-policy" ->
                \/ Includes(lower, <<"g","e","o","l","o","c","a","t","i","o","n">>) \/ Includes(lower, <<"n","o","t","i","f","i","c","a","t","i","o","n","s">>)
                \/ Includes(lower, <<"c","a","m","e","r","a">>) \/ Includes(lower, <<"m","i","c","r","o","p","h","o","n","e">>)
          [] name = "x-xss-protection" -> value = <<"1">> \/ value = <<"0">>
          [] name = "expect-ct" ->
                /\ Includes(lower, <<"m","a","x","-","a","g","e">>) /\ Includes(lower, <<"e","n","f","o","r","c","e">>)
                /\ Includes(lower, <<"r","e","p","o","r","t","-","u","r","i">>)
          [] name = "content-encoding" -> value = <<"g","z","i","p">> \/ value = <<"d","e","f","l","a","t","e">>
          [] name = "cache-control" ->
                ~Includes(lower, <<"p","r","i","v","a","t","e">>) /\ ~Includes(lower, <<"n","o","-","s","t","o","r","e">>)
          [] name = "strict-transport-security-preload" -> lower = <<"p","r","e","l","o","a","d">>
          [] name = "server" ->
                /\ ~Includes(lower, <<"c","l","o","u","d","f","l","a","r","e">>) /\ ~Includes(lower, <<"a","p","a","c","h","e">>)
                /\ ~Includes(lower, <<"c","a","d","d","y">>) /\ ~Includes(lower, <<"i","i","s">>)
          [] OTHER -> TRUE

\* the message option of each refine
RefineMessage(name) ==
    CASE name = "strict-transport-security" -> "Invalid 'Strict-Transport-Security' header format. It should be in the format 'max-age=number; includeSubDomains'."
      [] name = "content-security-policy" -> "Invalid 'Content-Security-Policy' header value. It should include 'default-src' or 'script-src' directives."
      [] name = "x-frame-options" -> "Invalid 'X-Frame-Options' header value. It should be 'SAMEORIGIN' or 'DENY'."
      [] name = "x-content-type-options" -> "Invalid 'X-Content-Type-Options' header value. It should be 'nosniff'."
      [] name = "referrer-policy" -> "Invalid 'Referrer-Policy' header value. It should be one of the allowed values."
      [] name = "permissions-policy" -> "Invalid 'Permissions-Policy' header value. It should include at least one of the specified features (geolocation, notifications, camera, microphone)."
      [] name = "content-security-policy-report-only" -> "Invalid 'Content-Security-Policy-Report-Only' header value. It should include 'default-src' or 'script-src' directives."
      [] name = "x-xss-protection" -> "Invalid 'X-XSS-Protection' header value. It should be '1' to enable or '0' to disable."
      [] name = "expect-ct" -> "Invalid 'Expect-CT' header value. It should include 'max-age', 'enforce', and 'report-uri' directives."
      [] name = "content-encoding" -> "Invalid 'Content-Encoding' header value. It should be 'gzip' or 'deflate' for compression."
      [] name = "cache-control" -> "Invalid 'Cache-Control' header value. It should not include 'private' or 'no-store' for sensitive data."
      [] name = "strict-transport-security-preload" -> "Invalid 'Strict-Transport-Security-Preload' header value. It should be 'preload'."
      [] name = "server" -> "Invalid 'Server' header value. It should not reveal server-specific information like 'Apache', 'Caddy', or 'IIS'."
      [] OTHER -> "Invalid input"

\* one key of the lenient schema: z.string().optional().refine(v => !v || ...),
\* and server: z.string().refine(...). The issue's message, or None.
LenientIssue(name, headers) ==
    IF name \notin DOMAIN headers
    THEN IF name = "server" THEN "Required" ELSE None
    ELSE IF name = "server"
         THEN IF RefineOk(name, headers[name]) THEN None ELSE RefineMessage(name)
         ELSE IF headers[name] = << >> \/ RefineOk(name, headers[name])
              THEN None ELSE RefineMessage(name)

\* a strict schema that lets absent headers pass, which C14 must tell from the
\* code's
StrictIssueAbsentOk(name, headers) ==
    IF name \notin DOMAIN headers THEN None
    ELSE IF RefineOk(name, headers[name]) THEN None ELSE RefineMessage(name)

\* one key of the strict schema: z.string({required_error: 'Missing'}).refine(...)
StrictIssue(name, headers) ==
    IF name \notin DOMAIN headers THEN "Missing"
    ELSE IF RefineOk(name, headers[name]) THEN None ELSE RefineMessage(name)

IssueOf(schema, name, headers) ==
    IF schema = "lenient" THEN LenientIssue(name, headers) ELSE StrictIssue(name, headers)

\* headerSchema.safeParse(headers): success, the parsed data (the recognized
\* keys that are present) and error.issues, one issue per failing key, in key order
RECURSIVE IssuesFrom(_, _, _)
IssuesFrom(schema, headers, i) ==
    IF i > Len(RulesOf(schema)) THEN << >>
    ELSE LET name == RulesOf(schema)[i]
             msg  == IssueOf(schema, name, headers)
         IN  (IF msg = None THEN << >> ELSE << [path |-> name, message |-> msg] >>)
             \o IssuesFrom(schema, headers, i + 1)

safeParse(schema, headers) ==
    LET issues == IssuesFrom(schema, headers, 1)
        keys   == {RulesOf(schema)[i] : i \in 1..Len(RulesOf(schema))}
    IN  [ success |-> issues = << >>,
          data    |-> [k \in keys \cap DOMAIN headers |-> headers[k]],
          issues  |-> issues ]

\* a grading that gives D up to 7 issues, which C6 must tell from the code's
calculateSecurityGradeLateF(schema, headers) ==
    LET parsedHeaders == safeParse(schema, headers)
        numIssues     == Len(parsedHeaders.issues)
    IN  IF parsedHeaders.success THEN "A"
        ELSE IF numIssues <= 2 THEN "B"
        ELSE IF numIssues <= 4 THEN "C"
        ELSE IF numIssues <= 7 THEN "D"
        ELSE "F"

\* src/index.tsx:261-278
calculateSecurityGrade(schema, headers) ==
    LET parsedHeaders == safeParse(schema, headers)
        numIssues     == Len(parsedHeaders.issues)
    IN  IF parsedHeaders.success THEN "A"
        ELSE IF numIssues <= 2 THEN "B"
        ELSE IF numIssues <= 4 THEN "C"
        ELSE IF numIssues <= 6 THEN "D"
        ELSE "F"

\* checks that are evaluated with the lenient rules whatever rules the grade
\* is computed with, which C18 must tell from the code's
doChecksLenient(schema, rawHeaders) ==
    LET parsedHeaders == safeParse("lenient", rawHeaders)
    IN  [ headers |->
            IF parsedHeaders.success
            THEN [k \in DOMAIN parsedHeaders.data |-> "Pass"]
            ELSE [k \in {parsedHeaders.issues[i].path : i \in 1..Len(parsedHeaders.issues)} |->
                    LET i == CHOOSE j \in 1..Len(parsedHeaders.issues) :
                                 parsedHeaders.issues[j].path = k
                    IN  parsedHeaders.issues[i].message] ]

\* src/index.tsx:370-376: the headers object of the checks, as the set of its
\* entries (Object.fromEntries keeps one value per key)
doChecks(schema, rawHeaders) ==
    LET parsedHeaders == safeParse(schema, rawHeaders)
    IN  [ headers |->
            IF parsedHeaders.success
            THEN [k \in DOMAIN parsedHeaders.data |-> "Pass"]
            ELSE [k \in {parsedHeaders.issues[i].path : i \in 1..Len(parsedHeaders.issues)} |->
                    LET i == CHOOSE j \in 1..Len(parsedHeaders.issues) :
                                 parsedHeaders.issues[j].path = k
                    IN  parsedHeaders.issues[i].message] ]


-----------------------------------------------------------------------------
(* The inputs of the server: requests, the probed site, DNS.               *)

\* the q parameter of the requests (before toLowerCase, src/index.tsx:446)
HostAQuery == <<"H","T","T","P","S",":","/","/","a","b",".","i","o","/","x">>
BadSchemeQuery == <<"f","t","p",":","/","/","a","b",".","i","o">>
NoTldQuery == <<"h","t","t","p","s",":","/","/","l","o","c","a","l","h","o","s","t">>
Queries == {HostAQuery, BadSchemeQuery, NoTldQuery}
\* the query of an earlier scan of another host
HostBQuery == <<"h","t","t","p","s",":","/","/","c","d",".","i","o">>

Paths == {"/", "/robots.txt"}

\* the X-Forwarded-For header and the peer address of the requests (has* is
\* FALSE where headers.get or requestIP gives null)
ClientInputs ==
    { [hasXff |-> TRUE, xff |-> <<"9",".","9",".","9",".","9",",","2",".","2",".","2",".","2">>, hasPeer |-> TRUE, peer |-> <<"1",".","1",".","1",".","1">>],
      [hasXff |-> FALSE, xff |-> << >>, hasPeer |-> TRUE, peer |-> <<"9",".","9",".","9",".","9">>] }

\* src/index.tsx:479
ClientIdentity(client) ==
    IF client.hasXff THEN Split(client.xff, ",")[1]
    ELSE IF client.hasPeer THEN client.peer
    ELSE <<"u","n","k","n","o","w","n">>

Identities == {ClientIdentity(c) : c \in ClientInputs}

\* the response headers of the probed site
SiteHeaders ==
    [ n \in {"server", "x-frame-options", "content-encoding"} |->
        CASE n = "server" -> <<"A","p","a","c","h","e","/","2",".","4">>
          [] n = "x-frame-options" -> <<"D","E","N","Y">>
          [] OTHER -> <<"b","r">> ]

\* the A and AAAA records of a hostname
ARecords(hostname) == << [family |-> 4, of |-> hostname] >>
AaaaRecords(hostname) == << [family |-> 6, of |-> hostname] >>

\* node:net isIPv4 / isIPv6
isIPv4(ip) == ip.family = 4
isIPv6(ip) == ip.family = 6

-----------------------------------------------------------------------------
(* State.                                                                  *)

VARIABLES
    schema,     \* the headerSchema variant the server runs with
    now,        \* Date.now()
    ips,        \* the Set ips of src/index.tsx:439
    timers,     \* the pending setTimeout callbacks: <<[ipAddress, due]>>
    log,        \* the Axiom dataset, as the server's queries read it
    req,        \* the handler activations in flight, a bag
    started,    \* requests received so far
    last,       \* the activation that returned its response in the step just taken
    lastAcq,    \* history: per identity, when it was last added to ips
    lastProbe,  \* history: per identity, when its last probe started
    fin,        \* the input of a pure function under check
    fout        \* its output

vars == <<schema, now, ips, timers, log, req, started, last, lastAcq, lastProbe,
          fin, fout>>

\* what no action of the server changes
env == <<schema, fin, fout>>

\* the headerSchema the server runs with: of the two in src/validation.ts,
\* the later export
DeployedSchema == "strict"

NoData == [eventType |-> "none"]
NoMessage == [text |-> "", arg |-> << >>]
NoResponse == [kind |-> "none", message |-> NoMessage, results |-> NoData]
NoMatch == [found |-> FALSE, time |-> 0, data |-> NoData]

\* an activation: the handler's locals (query, force, ipAddress, resultsMatch,
\* isOutOfDate, limited; call is 1 in the fetchNewResults of src/index.tsx:473
\* and 2 in that of :497, with its locals rawHeaders, v4, resultsEvent), the
\* response, and what the activation did so far
IdleReq ==
    [ pc |-> "idle", query |-> << >>, force |-> FALSE, ipAddress |-> << >>,
      call |-> 0, resultsMatch |-> NoMatch, decided |-> FALSE, isOutOfDate |-> FALSE,
      limited |-> FALSE, rawHeaders |-> << >>, v4 |-> << >>, resultsEvent |-> NoData,
      response |-> NoResponse,
      queryIngested |-> FALSE, lookups |-> 0, fetches |-> 0, dnsCalls |-> 0,
      resultIngests |-> 0, statsQueries |-> 0, failed |-> "none" ]

\* activation r goes on as r2, and activation r returns
Continue(r, r2) == req' = (req (-) SetToBag({r})) (+) SetToBag({r2})
Return(r) == req' = req (-) SetToBag({r})
InFlight == BagToSet(req)

Failure(text, arg) ==
    [kind |-> "Failure", message |-> [text |-> text, arg |-> arg], results |-> NoData]
ResultsPanel(results) ==
    [kind |-> "ResultsPanel", message |-> NoMessage, results |-> results]

\* the time zero of the behaviours: late enough for a record to be 14 days old
StartTime == TWO_WEEKS

\* src/index.tsx:395-410 (providers left out)
ResultsEventOf(sch, query, rawHeaders, addresses) ==
    [ eventType |-> "result",
      query     |-> query,
      hostname  |-> Hostname(query),
      rawHeaders |-> rawHeaders,
      ipAddress |-> [ ipv4 |-> SelectSeq(addresses, isIPv4),
                      ipv6 |-> SelectSeq(addresses, isIPv6) ],
      checks    |-> doChecks(sch, rawHeaders),
      grade     |-> calculateSecurityGrade(sch, rawHeaders) ]

\* src/index.tsx:461-465
QueryEventOf(query) ==
    [eventType |-> "query", query |-> query, hostname |-> Hostname(query)]

\* The dataset is append-only and lives outside the server, which reads it in
\* two ways only: the latest result row of a hostname (src/index.tsx:430) and
\* the numbers of query and of result rows (src/index.tsx:331-332). The model
\* keeps exactly that of it: the two numbers and, per hostname, the latest
\* result row with the _time Axiom stamped it with.
Hostnames == {Hostname(ToLowerCase(HostAQuery)), Hostname(HostBQuery)}

EmptyLog == [queries |-> 0, results |-> 0, latest |-> [h \in Hostnames |-> NoMatch]]

\* axiom.ingest of a query event, flushed
IngestQuery(l, queryEvent) == [l EXCEPT !.queries = @ + 1]

\* axiom.ingest of a result event, flushed at time t
IngestResult(l, t, resultsEvent) ==
    [l EXCEPT !.results = @ + 1,
              !.latest[resultsEvent.hostname] =
                  IF @.found /\ @.time > t THEN @
                  ELSE [found |-> TRUE, time |-> t, data |-> resultsEvent]]

\* an earlier scan of query at time t, as the dataset holds it: its query
\* event and its result
EarlierScan(l, sch, query, t) ==
    IngestResult(IngestQuery(l, QueryEventOf(query)), t,
                 ResultsEventOf(sch, query, SiteHeaders,
                                ARecords(Hostname(query)) \o AaaaRecords(Hostname(query))))

\* the ages of the earlier scans the behaviours start with: exactly 14 days
\* before StartTime, and one second less
EarlierTimes == {StartTime - TWO_WEEKS, StartTime - TWO_WEEKS + 1000}

-----------------------------------------------------------------------------
(* The handler, src/index.tsx:443-504. An action is the code between two   *)
(* awaits: the event loop runs it without interleaving.                    *)

\* a decision with < in the place of <=, which C4 must tell from the code's
IsOutOfDateStrictlyOlder(force, resultsMatch, t) ==
    force \/ (IF resultsMatch.found THEN resultsMatch.time < t - TWO_WEEKS ELSE TRUE)

\* src/index.tsx:476
IsOutOfDate(force, resultsMatch, t) ==
    force \/ (IF resultsMatch.found THEN resultsMatch.time <= t - TWO_WEEKS ELSE TRUE)

\* a gate that limits nobody, which C3 must tell from the code's
GateNeverLimits(isOutOfDate, limited) ==
    IF isOutOfDate THEN "probe" ELSE "cached"

\* a gate that limits cached reads as well, which C5 must tell from the code's
GateLimitsFirst(isOutOfDate, limited) ==
    IF limited THEN "limited"
    ELSE IF isOutOfDate THEN "probe" ELSE "cached"

\* src/index.tsx:487-497: what the handler does once isOutOfDate and limited are known
Gate(isOutOfDate, limited) ==
    IF isOutOfDate
    THEN IF limited THEN "limited" ELSE "probe"
    ELSE "cached"

\* fetchNewResults up to its first await, the fetch of src/index.tsx:388
StartProbe(r, call) == [r EXCEPT !.pc = "fetch", !.call = call, !.fetches = @ + 1]

NoteProbe(ipAddress) == lastProbe' = [lastProbe EXCEPT ![ipAddress] = now]

\* return createResponse(element), src/index.tsx:329-347: the two count queries
\* of the footer (a failed one counts as 0) and the Response. The handler
\* touches no state of the server after this call, so the activation ends in
\* the step that builds the element.
Respond(r, r1, response) ==
    /\ last' = [r1 EXCEPT !.pc = "done", !.response = response, !.statsQueries = @ + 2]
    /\ Return(r)

\* the catch of src/index.tsx:501-503
Caught(r, text, what) ==
    Respond(r, [r EXCEPT !.failed = what], Failure(text, << >>))

\* fetchLastResultsMatch's query, src/index.tsx:430-436: where eventType is
\* result and hostname is the query's, sort by _time desc, limit 1
\* (removeEmpty, :420-426, drops the null fields of the row's data; a result
\* event has none)
LatestMatch(hostname) == log.latest[hostname]

\* src/index.tsx:476-497, from the value of resultsMatch to the next await
Decide(r, resultsMatch) ==
    LET isOutOfDate == IsOutOfDate(r.force, resultsMatch, now)
        ipAddress   == r.ipAddress
        limited     == ipAddress \in ips
        r1 == [r EXCEPT !.resultsMatch = resultsMatch, !.decided = TRUE,
                        !.isOutOfDate = isOutOfDate, !.limited = limited]
        gate == Gate(isOutOfDate, limited)
    IN  CASE gate = "limited" ->
               /\ Respond(r, r1, Failure("Rate limited by", ipAddress))
               /\ UNCHANGED <<ips, timers, lastAcq, lastProbe>>
          [] gate = "probe" ->
               /\ ips' = ips \cup {ipAddress}
               /\ timers' = Append(timers, [ipAddress |-> ipAddress, due |-> now + COOLDOWN])
               /\ lastAcq' = [lastAcq EXCEPT ![ipAddress] = now]
               /\ Continue(r, StartProbe(r1, 2))
               /\ NoteProbe(ipAddress)
               /\ last' = IdleReq
          [] OTHER ->
               /\ Respond(r, r1, ResultsPanel(resultsMatch.data))
               /\ UNCHANGED <<ips, timers, lastAcq, lastProbe>>

\* the requests: the path, the q and force parameters and the client of each,
\* with what src/index.tsx:446-458 and :479 compute of them
Requests ==
    { [ path |-> path, q |-> q, query |-> ToLowerCase(q), force |-> force,
        error |-> ValidationError(ToLowerCase(q)), ipAddress |-> ClientIdentity(client) ] :
        path \in Paths, q \in Queries \cup {<< >>}, force \in BOOLEAN, client \in ClientInputs }

\* src/index.tsx:445-467: a request arrives and the handler runs to its first await
Receive(request) ==
    /\ started < MaxInFlight
    /\ started' = started + 1
    /\ LET r == [IdleReq EXCEPT !.force = request.force, !.ipAddress = request.ipAddress]
           query == request.query
       IN  IF request.path = "/robots.txt"
           THEN /\ last' = [r EXCEPT !.pc = "done", !.response.kind = "robots"]
                /\ UNCHANGED req
           ELSE IF request.q = << >>
           THEN /\ last' = [r EXCEPT !.pc = "done", !.response.kind = "HomePage",
                                     !.statsQueries = @ + 2]
                /\ UNCHANGED req
           ELSE IF request.error # None
           THEN /\ last' = [r EXCEPT !.pc = "done", !.query = query, !.statsQueries = @ + 2,
                                     !.response = Failure(request.error, << >>)]
                /\ UNCHANGED req
           ELSE /\ req' = req (+) SetToBag({[r EXCEPT !.query = query, !.pc = "flushQ",
                                                       !.queryIngested = TRUE]})
                /\ last' = IdleReq
    /\ UNCHANGED <<env, now, ips, timers, log, lastAcq, lastProbe>>

\* src/index.tsx:467-473: the flush of the query event resolves
FlushQueryOk(r) ==
    /\ r.pc = "flushQ"
    /\ log' = IngestQuery(log, QueryEventOf(r.query))
    /\ IF r.force
       THEN /\ Continue(r, StartProbe(r, 1))
            /\ NoteProbe(r.ipAddress)
       ELSE /\ Continue(r, [r EXCEPT !.pc = "query", !.lookups = @ + 1])
            /\ UNCHANGED lastProbe
    /\ last' = IdleReq
    /\ UNCHANGED <<env, now, ips, timers, started, lastAcq>>

\* src/index.tsx:467: the flush of the query event rejects
FlushQueryFail(r) ==
    /\ r.pc = "flushQ"
    /\ Caught(r, "flush failed", "flushQ")
    /\ UNCHANGED <<env, now, ips, timers, log, started, lastAcq, lastProbe>>

\* src/index.tsx:430-436 and 473-497: the query of the last result resolves
QueryOk(r) ==
    /\ r.pc = "query"
    /\ Decide(r, LatestMatch(Hostname(r.query)))
    /\ UNCHANGED <<env, now, log, started>>

\* src/index.tsx:430: the query of the last result rejects
QueryFail(r) ==
    /\ r.pc = "query"
    /\ Caught(r, "query failed", "query")
    /\ UNCHANGED <<env, now, ips, timers, log, started, lastAcq, lastProbe>>

\* src/index.tsx:388-390: the fetch resolves with the site's headers; resolve4 is called
FetchOk(r) ==
    /\ r.pc = "fetch"
    /\ Continue(r, [r EXCEPT !.pc = "dns4", !.rawHeaders = SiteHeaders, !.dnsCalls = @ + 1])
    /\ last' = IdleReq
    /\ UNCHANGED <<env, now, ips, timers, log, started, lastAcq, lastProbe>>

\* src/index.tsx:388: the fetch rejects
FetchFail(r) ==
    /\ r.pc = "fetch"
    /\ Caught(r, "fetch failed", "fetch")
    /\ UNCHANGED <<env, now, ips, timers, log, started, lastAcq, lastProbe>>

\* src/index.tsx:349-355 and 390: resolve4 resolves and resolve6 is called
Resolve4Ok(r) ==
    /\ r.pc = "dns4"
    /\ Continue(r, [r EXCEPT !.pc = "dns6", !.v4 = ARecords(Hostname(r.query)),
                             !.dnsCalls = @ + 1])
    /\ last' = IdleReq
    /\ UNCHANGED <<env, now, ips, timers, log, started, lastAcq, lastProbe>>

\* src/index.tsx:352 and 390: resolve4 rejects
Resolve4Fail(r) ==
    /\ r.pc = "dns4"
    /\ Caught(r, "queryA failed", "dns4")
    /\ UNCHANGED <<env, now, ips, timers, log, started, lastAcq, lastProbe>>

\* src/index.tsx:357-362 and 390-413: resolve6 resolves; the result event is
\* built, ingested and flushed
Resolve6Ok(r) ==
    LET addresses == r.v4 \o AaaaRecords(Hostname(r.query))
    IN  /\ r.pc = "dns6"
        /\ Continue(r, [r EXCEPT !.pc = "flushR",
                                 !.resultsEvent = ResultsEventOf(schema, r.query, r.rawHeaders, addresses),
                                 !.resultIngests = @ + 1])
        /\ last' = IdleReq
        /\ UNCHANGED <<env, now, ips, timers, log, started, lastAcq, lastProbe>>

\* src/index.tsx:359 and 390: resolve6 rejects
Resolve6Fail(r) ==
    /\ r.pc = "dns6"
    /\ Caught(r, "queryAaaa failed", "dns6")
    /\ UNCHANGED <<env, now, ips, timers, log, started, lastAcq, lastProbe>>

\* src/index.tsx:413-417: the flush of the result event resolves and
\* fetchNewResults returns, to src/index.tsx:473 (forced) or 497
FlushResultOk(r) ==
    /\ r.pc = "flushR"
    /\ log' = IngestResult(log, now, r.resultsEvent)
    /\ IF r.call = 1
       THEN Decide(r, [found |-> TRUE, time |-> now, data |-> r.resultsEvent])
       ELSE /\ Respond(r, r, ResultsPanel(r.resultsEvent))
            /\ UNCHANGED <<ips, timers, lastAcq, lastProbe>>
    /\ UNCHANGED <<env, now, started>>

\* src/index.tsx:413: the flush of the result event rejects
FlushResultFail(r) ==
    /\ r.pc = "flushR"
    /\ Caught(r, "flush failed", "flushR")
    /\ UNCHANGED <<env, now, ips, timers, log, started, lastAcq, lastProbe>>

Remove(seq, i) == SubSeq(seq, 1, i - 1) \o SubSeq(seq, i + 1, Len(seq))

\* a timer whose callback may run before its delay has passed, which C17 must
\* tell from the code's
TimerFiresEarly(i) ==
    /\ i \in 1..Len(timers)
    /\ ips' = ips \ {timers[i].ipAddress}
    /\ timers' = Remove(timers, i)
    /\ last' = IdleReq
    /\ UNCHANGED <<env, now, log, req, started, lastAcq, lastProbe>>

\* src/index.tsx:491-493: a timer's callback runs, once its delay has passed
TimerFires(i) ==
    /\ i \in 1..Len(timers)
    /\ timers[i].due <= now
    /\ ips' = ips \ {timers[i].ipAddress}
    /\ timers' = Remove(timers, i)
    /\ last' = IdleReq
    /\ UNCHANGED <<env, now, log, req, started, lastAcq, lastProbe>>

\* the clock advances, by TickMs or to the next timer's due time if that is
\* sooner: a due timer runs before time passes
Tick ==
    LET dues == {timers[i].due : i \in 1..Len(timers)}
        next == IF \E d \in dues : d <= now + TickMs
                THEN CHOOSE d \in dues : \A e \in dues : d <= e
                ELSE now + TickMs
    IN  /\ now < StartTime + MaxTicks * TickMs
        /\ \A d \in dues : d > now
        /\ now' = next
        /\ last' = IdleReq
        /\ UNCHANGED <<env, ips, timers, log, req, started, lastAcq, lastProbe>>

Init ==
    /\ schema = DeployedSchema
    /\ now = StartTime
    /\ ips = {}
    /\ timers = << >>
    /\ log \in {EarlierScan(EmptyLog, schema, HostBQuery, StartTime - 1000)}
               \cup {EarlierScan(EarlierScan(EmptyLog, schema, HostBQuery, StartTime - 1000),
                                 schema, ToLowerCase(HostAQuery), t) : t \in EarlierTimes}
    /\ req = EmptyBag
    /\ started = 0
    /\ last = IdleReq
    /\ lastAcq = [i \in Identities |-> Never]
    /\ lastProbe = [i \in Identities |-> Never]
    /\ fin = None
    /\ fout = None

Next ==
    \/ \E request \in Requests : Receive(request)
    \/ \E r \in InFlight : FlushQueryOk(r)
    \/ \E r \in InFlight : FlushQueryFail(r)
    \/ \E r \in InFlight : QueryOk(r)
    \/ \E r \in InFlight : QueryFail(r)
    \/ \E r \in InFlight : FetchOk(r)
    \/ \E r \in InFlight : FetchFail(r)
    \/ \E r \in InFlight : Resolve4Ok(r)
    \/ \E r \in InFlight : Resolve4Fail(r)
    \/ \E r \in InFlight : Resolve6Ok(r)
    \/ \E r \in InFlight : Resolve6Fail(r)
    \/ \E r \in InFlight : FlushResultOk(r)
    \/ \E r \in InFlight : FlushResultFail(r)
    \/ \E i \in 1..Len(timers) : TimerFires(i)
    \/ Tick

Spec == Init /\ [][Next]_vars

-----------------------------------------------------------------------------
(* calculateSecurityGrade as a function of the header map.                 *)

\* a value each rule accepts
GoodValue(name) ==
    CASE name = "strict-transport-security" -> <<"m","a","x","-","a","g","e","=","3","1","5","3","6","0","0","0",";"," ","i","n","c","l","u","d","e","S","u","b","D","o","m","a","i","n","s">>
      [] name = "content-security-policy" -> <<"d","e","f","a","u","l","t","-","s","r","c"," ","'","s","e","l","f","'">>
      [] name = "x-frame-options" -> <<"D","E","N","Y">>
      [] name = "x-content-type-options" -> <<"n","o","s","n","i","f","f">>
      [] name = "referrer-policy" -> <<"n","o","-","r","e","f","e","r","r","e","r">>
      [] name = "permissions-policy" -> <<"c","a","m","e","r","a","=","(",")">>
      [] name = "content-security-policy-report-only" -> <<"s","c","r","i","p","t","-","s","r","c"," ","'","s","e","l","f","'">>
      [] name = "x-xss-protection" -> <<"1">>
      [] name = "expect-ct" -> <<"m","a","x","-","a","g","e","=","1",","," ","e","n","f","o","r","c","e",","," ","r","e","p","o","r","t","-","u","r","i","=","x">>
      [] name = "content-encoding" -> <<"g","z","i","p">>
      [] name = "cache-control" -> <<"n","o","-","c","a","c","h","e">>
      [] name = "strict-transport-security-preload" -> <<"p","r","e","l","o","a","d">>
      [] name = "server" -> <<"n","g","i","n","x">>
      [] OTHER -> <<"x">>

\* a value the rule's refine, where it has one, rejects
BadValue(name) ==
    CASE name = "server" -> <<"A","p","a","c","h","e","/","2",".","4">>
      [] name = "cache-control" -> <<"p","r","i","v","a","t","e">>
      [] OTHER -> <<"b","a","d">>

Modes == {"bad", "absent", "empty"}

\* the header map in which the first k headers (in the order of StrictRules)
\* are bad, absent or empty, and the others good
HeaderCut(k, mode) ==
    LET first == IF mode = "absent" THEN k + 1 ELSE 1
    IN  [ n \in {StrictRules[i] : i \in first..Len(StrictRules)} |->
            LET i == CHOOSE j \in 1..Len(StrictRules) : StrictRules[j] = n
            IN  IF i > k THEN GoodValue(n)
                ELSE IF mode = "bad" THEN BadValue(n) ELSE << >> ]

HeaderMaps == {HeaderCut(k, mode) : k \in 0..Len(StrictRules), mode \in Modes}

InitGrade ==
    /\ schema \in Schemas
    /\ fin \in HeaderMaps
    /\ fout = None
    /\ now = StartTime
    /\ ips = {}
    /\ timers = << >>
    /\ log = EmptyLog
    /\ req = EmptyBag
    /\ started = 0
    /\ last = IdleReq
    /\ lastAcq = [i \in Identities |-> Never]
    /\ lastProbe = [i \in Identities |-> Never]

\* calculateSecurityGrade(fin) is called
Grade ==
    /\ fout = None
    /\ fout' = calculateSecurityGrade(schema, fin)
    /\ UNCHANGED <<schema, fin, now, ips, timers, log, req, started, last, lastAcq, lastProbe>>

NextGrade == Grade

SpecGrade == InitGrade /\ [][NextGrade]_vars

-----------------------------------------------------------------------------
(* Properties.                                                             *)

\* the activations that start a probe in a step: they reach the fetch of
\* fetchNewResults
ProbeStarts ==
    {r \in BagToSet(req') : r.pc = "fetch" /\ CopiesIn(r, req') > CopiesIn(r, req)}

\* an activation that returned because its client was rate limited
Throttled(r) == r.pc = "done" /\ r.decided /\ r.isOutOfDate /\ r.limited

\* C1: a request that requires a fresh probe while its client identity is in
\* the rate-limit table ends with the rate-limit error, and no fetch, no DNS
\* resolution and no ingest of a result happens on its behalf: no probe starts
\* for an identity that is in the table, and a throttled request has called
\* nothing.
C1_ThrottledRequestCallsNothing ==
    [][ /\ \A r \in ProbeStarts : r.ipAddress \notin ips
        /\ Throttled(last') =>
              /\ last'.response = Failure("Rate limited by", last'.ipAddress)
              /\ last'.fetches = 0
              /\ last'.dnsCalls = 0
              /\ last'.resultIngests = 0 ]_vars

\* C2: whatever the interleaving of the requests of one client identity, a
\* probe starts for the identity only if none started for it in the 10
\* seconds before.
C2_OneProbePerWindow ==
    [][ \A r \in ProbeStarts :
           \/ lastProbe[r.ipAddress] = Never
           \/ now >= lastProbe[r.ipAddress] + COOLDOWN ]_vars

\* the removal of X scheduled by setTimeout has not run yet
Pending(X) == \E i \in 1..Len(timers) : timers[i].ipAddress = X
\* less than 10 s have passed since X was added to the table
InWindow(X) == lastAcq[X] # Never /\ now < lastAcq[X] + COOLDOWN
\* X was never added, or the 10 s have passed and the removal has run
Elapsed(X) == lastAcq[X] = Never \/ (now >= lastAcq[X] + COOLDOWN /\ ~Pending(X))
\* the step adds a timer for X: an acquisition for X succeeds
Granted(X) == Len(timers') = Len(timers) + 1 /\ timers'[Len(timers')].ipAddress = X
\* the step returns the rate-limit decision to a request of X
Rejected(X) == Throttled(last') /\ last'.ipAddress = X

\* C3: an acquisition for X succeeds only when X is not in the table, adds X
\* and schedules its removal 10 s later; no acquisition for X succeeds in the
\* 10 s after one succeeded, so every attempt in that window is rejected, with
\* the rate-limit error and the table as it was; and none is rejected once the
\* 10 s have passed and the removal has run, so the first attempt then
\* succeeds.
C3_LimiterSequence ==
    [][ \A X \in Identities :
           /\ Granted(X) =>
                 /\ X \notin ips
                 /\ X \in ips'
                 /\ timers'[Len(timers')].due = now + COOLDOWN
                 /\ ~InWindow(X)
           /\ Rejected(X) =>
                 /\ ~Elapsed(X)
                 /\ last'.response = Failure("Rate limited by", X)
                 /\ ips' = ips
                 /\ timers' = timers ]_vars

\* two activations acquired for the same identity, the second one now, 10 s
\* or more after the first
C3_Reacquired ==
    \E X \in Identities :
        LET granted == {r \in BagToSet(req) :
                          r.ipAddress = X /\ r.decided /\ r.isOutOfDate /\ ~r.limited}
        IN  /\ lastAcq[X] = now
            /\ now >= StartTime + COOLDOWN
            /\ \/ \E r1, r2 \in granted : r1 # r2
               \/ \E r \in granted : CopiesIn(r, req) >= 2

\* the rule of the freshness decision, as the specification words it
needsFreshProbe(forceRequested, previous, t) ==
    IF forceRequested THEN TRUE
    ELSE IF ~previous.found THEN TRUE
    ELSE t - previous.time >= TWO_WEEKS

\* the activations that take the freshness decision in a step: they go on to
\* the second fetchNewResults or return at once
DecidedNow ==
    {r \in ProbeStarts : r.call = 2}
        \cup {r \in {last'} : r.pc = "done" /\ r.decided /\ r.call # 2}

\* C4: the handler's isOutOfDate is needsFreshProbe of force, the previous
\* record and the time of the decision; a request whose record is exactly 14
\* days old goes to a fresh probe (or the rate limit), one whose record is a
\* second younger is answered from the record.
C4_IsOutOfDateIsNeedsFreshProbe ==
    [][ \A r \in DecidedNow :
           /\ r.isOutOfDate = needsFreshProbe(r.force, r.resultsMatch, now)
           /\ (~r.force /\ r.resultsMatch.found /\ now - r.resultsMatch.time = TWO_WEEKS)
                 => (r \in ProbeStarts \/ Throttled(r))
           /\ (~r.force /\ r.resultsMatch.found /\ now - r.resultsMatch.time = TWO_WEEKS - 1000)
                 => (r = last' /\ r.response = ResultsPanel(r.resultsMatch.data)) ]_vars

\* a request that is not forced probes afresh for a record exactly 14 days old
C4_BoundaryProbed ==
    \E r \in BagToSet(req) :
        /\ r.decided /\ ~r.force /\ r.resultsMatch.found /\ r.isOutOfDate
        /\ now - r.resultsMatch.time = TWO_WEEKS

\* a request that is not forced and whose lookup returned a record younger
\* than 14 days
YoungCached(r) ==
    r.decided /\ ~r.force /\ r.resultsMatch.found /\ now' - r.resultsMatch.time < TWO_WEEKS

\* C5: a request that is not forced and whose lookup returned a record
\* younger than 14 days returns in the step of the decision, with that record,
\* whether ips holds its client or not; it has started no probe, and the step
\* leaves ips and the timers as they were. The table changes only in a step
\* that starts a probe or runs a timer.
C5_CachedReadsNotLimited ==
    [][ /\ \A r \in BagToSet(req') \cup {last'} :
              YoungCached(r) =>
                 /\ r = last'
                 /\ r.pc = "done"
                 /\ r.response = ResultsPanel(r.resultsMatch.data)
                 /\ r.fetches = 0 /\ r.dnsCalls = 0 /\ r.resultIngests = 0
                 /\ ips' = ips
                 /\ timers' = timers
        /\ (ips' # ips \/ timers' # timers) =>
              (ProbeStarts # {} \/ Len(timers') < Len(timers)) ]_vars

\* a throttled client is answered from a record younger than 14 days
C5_ThrottledServedFromCache ==
    /\ last.pc = "done" /\ last.decided /\ ~last.force
    /\ ~last.isOutOfDate /\ last.limited
    /\ now - last.resultsMatch.time < TWO_WEEKS
    /\ last.response = ResultsPanel(last.resultsMatch.data)

\* the rules of the schema that the headers fail
FailedRules(sch, headers) ==
    {i \in 1..Len(RulesOf(sch)) : IssueOf(sch, RulesOf(sch)[i], headers) # None}

C7_FailedLookupDegrades ==
    (last.pc = "done" /\ last.failed = "query") =>
        /\ last.decided
        /\ last.isOutOfDate
        /\ (last.limited \/ last.response.kind = "ResultsPanel")

\* C8: when the flush of the query event or of the result event fails, the
\* response is not that error: after the failed flush of a result event the
\* response carries the report and the grade computed from the headers.
C8_FailedFlushStillAnswers ==
    /\ (last.pc = "done" /\ last.failed = "flushQ") =>
          last.response # Failure("flush failed", << >>)
    /\ (last.pc = "done" /\ last.failed = "flushR") =>
          /\ last.response.kind = "ResultsPanel"
          /\ last.response.results.grade = calculateSecurityGrade(schema, last.rawHeaders)

\* C9: when the A records resolved and the AAAA lookup failed, the probe
\* completes with a result that holds the A records.
C9_OneFamilyFailing ==
    (last.pc = "done" /\ last.failed = "dns6") =>
        /\ last.response.kind = "ResultsPanel"
        /\ last.response.results.ipAddress.ipv4 = last.v4

\* a returned request whose query fails the validation of src/index.tsx:455-458
Invalid(r) ==
    r.pc = "done" /\ r.query # << >> /\ ~(hasCorrectSchema(r.query) /\ hasTld(r.query))

-----------------------------------------------------------------------------
(* The result event of fetchNewResults as a function of the headers the    *)
(* probed site answers with.                                               *)

HeaderStates == {"absent", "good", "bad", "empty"}

\* the value of header n in a state other than absent
HeaderValue(n, st) ==
    IF st = "good" THEN GoodValue(n)
    ELSE IF st = "bad" THEN BadValue(n)
    ELSE << >>

\* the header map in which header h is in state st and every other recognized
\* header in state base
OneOff(h, st, base) ==
    [ n \in {x \in HeaderNames : (IF x = h THEN st ELSE base) # "absent"} |->
        HeaderValue(n, IF n = h THEN st ELSE base) ]

\* a header map with a header that no rule names
WithUnknownHeader ==
    [ n \in HeaderNames \cup {"x-powered-by"} |->
        IF n \in HeaderNames THEN GoodValue(n) ELSE <<"E","x","p","r","e","s","s">> ]

ProbedHeaders ==
    HeaderMaps
        \cup {OneOff(h, st, base) : h \in HeaderNames, st \in HeaderStates,
                                    base \in {"good", "absent"}}
        \cup {WithUnknownHeader}

NoOutput == [op |-> "none"]

InitProbe ==
    /\ schema \in Schemas
    /\ fin \in ProbedHeaders
    /\ fout = NoOutput
    /\ now = StartTime
    /\ ips = {}
    /\ timers = << >>
    /\ log = EmptyLog
    /\ req = EmptyBag
    /\ started = 0
    /\ last = IdleReq
    /\ lastAcq = [i \in Identities |-> Never]
    /\ lastProbe = [i \in Identities |-> Never]

\* src/index.tsx:389-410: rawHeaders is fin, and the result event is built
BuildResult ==
    LET query == ToLowerCase(HostAQuery)
        addresses == ARecords(Hostname(query)) \o AaaaRecords(Hostname(query))
    IN  /\ fout.op = "none"
        /\ fout' = [op |-> "result", event |-> ResultsEventOf(schema, query, fin, addresses)]
        /\ UNCHANGED <<schema, fin, now, ips, timers, log, req, started, last, lastAcq,
                       lastProbe>>

NextProbe == BuildResult

SpecProbe == InitProbe /\ [][NextProbe]_vars

\* the names of the rules of a schema
RuleNames(sch) == {RulesOf(sch)[i] : i \in 1..Len(RulesOf(sch))}

\* the names of the rules of the schema that the headers fail
FailedNames(sch, headers) == {RulesOf(sch)[i] : i \in FailedRules(sch, headers)}

\* the headers object of the checks of the result event built
Report == fout.event.checks.headers

\* the keys of the report that carry a failure message
FailureMessages == {k \in DOMAIN Report : Report[k] # "Pass"}

\* C11: in the lenient schema, a recognized header (server included) that the
\* header map does not contain gets no failure in the report and is not among
\* the failed rules the grade counts.
C11_LenientSkipsAbsent ==
    (fout.op = "result" /\ schema = "lenient") =>
        \A h \in RuleNames("lenient") :
            h \notin DOMAIN fin =>
                /\ h \notin FailureMessages
                /\ h \notin FailedNames("lenient", fin)

\* C12: in both schemas a header that is present with the empty string is
\* held against the predicate of its rule like any other value: where the
\* predicate rejects the empty string, the report carries the rule's failure
\* message for the header and the header is among the failed rules.
C12_EmptyValueFails ==
    fout.op = "result" =>
        \A h \in RuleNames(schema) :
            (h \in DOMAIN fin /\ fin[h] = << >> /\ ~RefineOk(h, << >>)) =>
                /\ h \in DOMAIN Report
                /\ Report[h] = RefineMessage(h)
                /\ h \in FailedNames(schema, fin)

\* C13: the report holds exactly one entry for each rule of the schema, "Pass"
\* for the rules the headers pass and the failure message for those they
\* fail, whether any rule failed or not.
C13_OneOutcomePerRule ==
    fout.op = "result" =>
        /\ DOMAIN Report = RuleNames(schema)
        /\ \A h \in RuleNames(schema) :
              IF h \in FailedNames(schema, fin)
              THEN Report[h] = IssueOf(schema, h, fin)
              ELSE Report[h] = "Pass"

\* the grades from best to worst
GradeRank(grade) ==
    CASE grade = "A" -> 0
      [] grade = "B" -> 1
      [] grade = "C" -> 2
      [] grade = "D" -> 3
      [] OTHER -> 4

\* the grade of the result event if it was built with schema sch, and
\* otherwise the grade that schema gives the same headers
GradeUnder(sch) ==
    IF schema = sch THEN fout.event.grade ELSE calculateSecurityGrade(sch, fin)

\* C14: for every header map, the strict schema fails at least as many rules
\* as the lenient schema, and the grade under the strict schema is not better
\* than the grade under the lenient one.
C14_StrictNeverBetter ==
    fout.op = "result" =>
        /\ Cardinality(FailedNames("strict", fin)) >= Cardinality(FailedNames("lenient", fin))
        /\ FailedNames("lenient", fin) \subseteq FailedNames("strict", fin)
        /\ GradeRank(GradeUnder("strict")) >= GradeRank(GradeUnder("lenient"))

\* headers that the lenient schema grades A and the strict schema F
C14_StrictWorse ==
    /\ fout.op = "result"
    /\ schema = "strict"
    /\ fout.event.grade = "F"
    /\ calculateSecurityGrade("lenient", fin) = "A"
    /\ Cardinality(FailedNames("strict", fin)) > Cardinality(FailedNames("lenient", fin))

-----------------------------------------------------------------------------
(* The validation of a query as a function of the q parameter,             *)
(* src/index.tsx:446 and :454-458.                                         *)

QuerySchemes == {<<"h","t","t","p",":","/","/">>, <<"h","t","t","p","s",":","/","/">>, <<"H","T","T","P","S",":","/","/">>, <<"f","t","p",":","/","/">>, << >>}
QueryHosts == {<<"l","o","c","a","l","h","o","s","t">>, <<"a","b",".","i","o">>, <<"a",".","b",".","c","o">>, <<"a",".","i","o">>, <<"a","b",".","c">>, <<"w","w","w",".","a","b",".","i","o">>}
QueryTails == {<< >>, <<"/","a",".","h","t","m","l">>, <<"?","x","=","1",".","2","5">>}

\* the values of the q parameter
ValidatedQueries == {s \o h \o t : s \in QuerySchemes, h \in QueryHosts, t \in QueryTails}

InitValidate ==
    /\ schema = DeployedSchema
    /\ fin \in ValidatedQueries
    /\ fout = NoOutput
    /\ now = StartTime
    /\ ips = {}
    /\ timers = << >>
    /\ log = EmptyLog
    /\ req = EmptyBag
    /\ started = 0
    /\ last = IdleReq
    /\ lastAcq = [i \in Identities |-> Never]
    /\ lastProbe = [i \in Identities |-> Never]

\* src/index.tsx:446 and :454-458: the query in lower case, and the error
\* thrown by the validation or None
Validate ==
    LET query == ToLowerCase(fin)
    IN  /\ fout.op = "none"
        /\ fout' = [op |-> "validation", query |-> query, error |-> ValidationError(query)]
        /\ UNCHANGED <<schema, fin, now, ips, timers, log, req, started, last, lastAcq, lastProbe>>

NextValidate == Validate

SpecValidate == InitValidate /\ [][NextValidate]_vars

\* some dot of s is followed by at least two more characters of s
DotWithSuffix(s) == \E i \in 1..Len(s) : s[i] = "." /\ Len(s) - i >= 2

\* C15: a query passes the validation if and only if it starts with http://
\* or https:// and its hostname contains a dot followed by a suffix of at
\* least 2 characters; a hostname without a dot is rejected whatever the path
\* or the query string, and a hostname of several labels with a TLD of 2 or
\* more characters is accepted.
C15_ValidIffHostnameHasTld ==
    fout.op = "validation" =>
        ((fout.error = None) <=>
            (hasCorrectSchema(fout.query) /\ DotWithSuffix(Hostname(fout.query))))

\* C16: from an empty log and after any sequence of requests, the number of
\* ingested result events is at most the number of ingested query events:
\* one query request produces at most one result record. (The scans already
\* in the log at the start came with their query events.)
C16_ResultsAtMostQueries == log.results <= log.queries

-----------------------------------------------------------------------------
(* The rate-limit table and its timers under the scheduling of the event   *)
(* loop: time passes, and the callback of a timer whose delay has passed   *)
(* is run.                                                                 *)

\* the clock past the horizon of Tick: with a timer pending, time passes up
\* to the moment the next timer is due
TickToTimer ==
    LET dues == {timers[i].due : i \in 1..Len(timers)}
    IN  /\ now >= StartTime + MaxTicks * TickMs
        /\ timers # << >>
        /\ \A d \in dues : d > now
        /\ now' = CHOOSE d \in dues : \A e \in dues : d <= e
        /\ last' = IdleReq
        /\ UNCHANGED <<env, ips, timers, log, req, started, lastAcq, lastProbe>>

\* the server starts on a dataset that holds one earlier scan, of another
\* host
InitLive ==
    /\ schema = DeployedSchema
    /\ now = StartTime
    /\ ips = {}
    /\ timers = << >>
    /\ log = EarlierScan(EmptyLog, schema, HostBQuery, StartTime - 1000)
    /\ req = EmptyBag
    /\ started = 0
    /\ last = IdleReq
    /\ lastAcq = [i \in Identities |-> Never]
    /\ lastProbe = [i \in Identities |-> Never]
    /\ fin = None
    /\ fout = None

\* the requests that reach the rate limiter: those for a page of results
\* with a query that passes the validation
ScanRequests ==
    {request \in Requests : request.path = "/" /\ request.q # << >> /\ request.error = None}

NextLive ==
    \/ \E request \in ScanRequests : Receive(request)
    \/ \E r \in InFlight : FlushQueryOk(r)
    \/ \E r \in InFlight : FlushQueryFail(r)
    \/ \E r \in InFlight : QueryOk(r)
    \/ \E r \in InFlight : QueryFail(r)
    \/ \E r \in InFlight : FetchOk(r)
    \/ \E r \in InFlight : FetchFail(r)
    \/ \E r \in InFlight : Resolve4Ok(r)
    \/ \E r \in InFlight : Resolve4Fail(r)
    \/ \E r \in InFlight : Resolve6Ok(r)
    \/ \E r \in InFlight : Resolve6Fail(r)
    \/ \E r \in InFlight : FlushResultOk(r)
    \/ \E r \in InFlight : FlushResultFail(r)
    \/ \E i \in 1..Len(timers) : TimerFires(i)
    \/ Tick
    \/ TickToTimer

\* time does not stop, and the event loop runs the callback of a due timer
\* (setTimeout, src/index.tsx:491-493); nothing is assumed of the requests
\* and of the external calls
Fairness ==
    /\ WF_vars(Tick)
    /\ WF_vars(TickToTimer)
    /\ WF_vars(\E i \in 1..Len(timers) : TimerFires(i))

SpecLive == InitLive /\ [][NextLive]_vars /\ Fairness

\* the timers pending for X
TimersOf(X) == {i \in 1..Len(timers) : timers[i].ipAddress = X}

\* X is in the table if and only if exactly one timer is pending for it, the
\* one set when X was added
OneTimerPerEntry ==
    \A X \in Identities :
        /\ Cardinality(TimersOf(X)) <= 1
        /\ X \in ips <=> TimersOf(X) # {}
        /\ \A i \in TimersOf(X) : timers[i].due = lastAcq[X] + COOLDOWN

\* a step takes X from the table only 10 s or more after X was added, and
\* with it the timer of X
RemovedByTimer ==
    \A X \in Identities :
        (X \in ips /\ X \notin ips') =>
            /\ now >= lastAcq[X] + COOLDOWN
            /\ Len(timers') = Len(timers) - 1

\* C17: a client identity is in the rate-limit table if and only if exactly
\* one removal timer is pending for it; no entry is removed earlier than 10 s
\* after it was added; and every entry is eventually removed, whatever
\* becomes of the probe and of the request that created it.
C17_EntryLivesWithItsTimer ==
    /\ []OneTimerPerEntry
    /\ [][RemovedByTimer]_vars
    /\ \A X \in Identities : (X \in ips) ~> (X \notin ips)

\* the probe that put its client into the table failed, and the entry is
\* there with its timer
C17_EntryOfFailedProbe ==
    /\ last.pc = "done"
    /\ last.call = 2
    /\ last.failed = "fetch"
    /\ last.ipAddress \in ips
    /\ Cardinality(TimersOf(last.ipAddress)) = 1

\* C18: in the result record of a fresh probe the grade and the report come
\* from the same headers under the same rules: the grade is A if and only if
\* the report holds no failure message, and otherwise the number of failure
\* messages in the report is the number of failed rules the grade was
\* computed from.
C18_GradeAgreesWithReport ==
    fout.op = "result" =>
        LET failedCount == Cardinality(FailedRules(schema, fin))
        IN  /\ fout.event.rawHeaders = fin
            /\ fout.event.grade = "A" <=> FailureMessages = {}
            /\ fout.event.grade # "A" => Cardinality(FailureMessages) = failedCount
            /\ fout.event.grade = calculateSecurityGrade(schema, fout.event.rawHeaders)
            /\ fout.event.grade = "A" <=> failedCount = 0
            /\ fout.event.grade = "B" <=> failedCount \in 1..2
            /\ fout.event.grade = "C" <=> failedCount \in 3..4
            /\ fout.event.grade = "D" <=> failedCount \in 5..6

\* a record graded D whose report holds five failure messages
C18_FiveFailuresGradedD ==
    /\ fout.op = "result"
    /\ fout.event.grade = "D"
    /\ Cardinality(FailureMessages) = 5

====
